---- MODULE Spec2Model ----
(***************************************************************************)
(* A model of scripts/iscsictl.py: the line-based editing of remote        *)
(* configuration files (ISCSI.append_cfg, ISCSI.remove_cfg), the           *)
(* Target / Initiator deployments built on it, and the SSH sessions and    *)
(* keys (SSH, Key) the deployments run over.                               *)
(*                                                                         *)
(* Text is a sequence of characters.  A character is a one-character       *)
(* string; where the program formats fixed text around a parameter         *)
(* ('Target iqn.2015-01.qa.cloud.suse.de:%s'), the fixed text is kept as   *)
(* one multi-character element.  Three characters have a meaning to the    *)
(* tools the program hands its text to and are modelled with it:           *)
(*   NL   the line terminator (str.replace, re.MULTILINE, the shell),      *)
(*   Q    the double quote, which the remote shell removes,                *)
(*   DOT  the regular-expression wildcard of re.search.                    *)
(***************************************************************************)
EXTENDS Integers, Sequences, FiniteSets, TLC

VARIABLES
    fs,         \* remote files: path -> content, defined on the files that exist
    cmds,       \* the remote commands issued since the last deploy() began, in order
    err,        \* the exception the last operation raised (NoError if none)
    lines,      \* editor runs: the tuple of lines under edit
    ops,        \* editor runs: one record per finished append_cfg / remove_cfg
    pc,         \* the statement of deploy() the current object is at
    target,     \* the current Target object: device, path, iqn_id, size
    loops,      \* the loop devices bound on the target host, as losetup -a lists them
    start,      \* the remote files and loop devices when the current deploy() began
    persisted,  \* one record per finished boot-persistence step of Target.deploy()
    deploys,    \* the number of Target objects constructed so far
    initiator,  \* the Initiator object: target_host, iqn_id, name
    discovery,  \* what the portal lists, and the text iscsiadm prints for it
    exported,   \* the <<device, iqn_id>> pairs Target.deploy() appended to ietd.conf
    sessions,   \* the SSH objects: their life, _copy_id, _connect and calls so far
    keyfile,    \* the local key file pair of the host: the key it holds, or none
    authorized, \* the remote ~/.ssh: authorized_keys and its .TMP and .BAK
    events,     \* what each SSH object did locally and remotely, in order
    interact    \* the output watcher of ssh_copy_id: stream, aggregated, stdin

vars == <<fs, cmds, err, lines, ops, pc, target, loops, start, persisted, deploys,
          initiator, discovery, exported, sessions, keyfile, authorized, events,
          interact>>

NL  == "\n"
Q   == "\""
DOT == "."

(***************************************************************************)
(* Bounds of the explored inputs.                                          *)
(***************************************************************************)
MaxCfgLen == 4      \* characters in the initial content of an edited file
MaxOps    == 2      \* editor operations applied in a row
MaxDeploys == 2     \* Target objects deployed, one after the other, on one host
MaxListed == 2      \* targets a discovery lists
MaxCalls == 2       \* method calls on one SSH object
MaxPieces == 3      \* pieces of output ssh-copy-id prints

(***************************************************************************)
(* Text helpers: Python's str and re operations, as the program uses them. *)
(***************************************************************************)
SeqsUpTo(S, n) == UNION {[1..k -> S] : k \in 0..n}

Range(s) == {s[i] : i \in DOMAIN s}

\* s[i:i+len(p)] == p
MatchAt(s, i, p) ==
    /\ i + Len(p) - 1 <= Len(s)
    /\ \A k \in 1..Len(p) : s[i + k - 1] = p[k]

\* p in s
Contains(s, p) == \E i \in 1..(Len(s) + 1) : MatchAt(s, i, p)

\* s.replace(old, ''): leftmost non-overlapping occurrences, old non-empty
RECURSIVE Remove(_, _)
Remove(s, old) ==
    IF Len(s) < Len(old) THEN s
    ELSE IF MatchAt(s, 1, old) THEN Remove(SubSeq(s, Len(old) + 1, Len(s)), old)
    ELSE <<Head(s)>> \o Remove(Tail(s), old)

\* s.split(sep) for a one-character sep: always at least one field
RECURSIVE Split(_, _)
Split(s, sep) ==
    IF \A i \in DOMAIN s : s[i] # sep THEN <<s>>
    ELSE LET i == CHOOSE j \in DOMAIN s : s[j] = sep /\ \A k \in 1..(j - 1) : s[k] # sep
         IN  <<SubSeq(s, 1, i - 1)>> \o Split(SubSeq(s, i + 1, Len(s)), sep)

\* The lines of a file: its newline-separated fields, without the empty field
\* that follows a final newline.
FileLines(cfg) ==
    LET f == Split(cfg, NL)
    IN  IF f[Len(f)] = <<>> THEN SubSeq(f, 1, Len(f) - 1) ELSE f

\* How many lines of cfg are exactly `line`.
CountLine(cfg, line) ==
    LET f == FileLines(cfg) IN Cardinality({i \in DOMAIN f : f[i] = line})

\* One pattern character against one text character; '.' matches anything
\* but a newline, every other modelled character matches itself.
CharMatch(p, c) == IF p = DOT THEN c # NL ELSE p = c

\* re.search('^%s$' % line, cfg, re.MULTILINE): `line` is the pattern.  '^'
\* matches at the start and after each newline, '$' at the end and before each
\* newline.
re_search(line, cfg) ==
    \E i \in 1..(Len(cfg) + 1) :
        /\ i = 1 \/ cfg[i - 1] = NL
        /\ i + Len(line) - 1 <= Len(cfg)
        /\ \A k \in 1..Len(line) : CharMatch(line[k], cfg[i + k - 1])
        /\ i + Len(line) = Len(cfg) + 1 \/ cfg[i + Len(line)] = NL

(***************************************************************************)
(* The remote shell.  sh hands ssh the argument list, ssh joins it with    *)
(* blanks and the remote shell evaluates the resulting command line, so    *)
(* the text of a line or of a whole file becomes shell source.             *)
(***************************************************************************)
\* Whether position i of shell source `text` lies inside double quotes.
Quoted(text, i) == Cardinality({j \in 1..(i - 1) : text[j] = Q}) % 2 = 1

\* "ok":     one command, its quotes removed;
\* "syntax": an unterminated quote, nothing of the last command runs;
\* "split":  an unquoted newline ends the command early, and the rest of the
\*           text, with the redirection, runs as a command of its own.
ShellStatus(text) ==
    IF Cardinality({j \in DOMAIN text : text[j] = Q}) % 2 = 1 THEN "syntax"
    ELSE IF \E i \in DOMAIN text : text[i] = NL /\ ~Quoted(text, i) THEN "split"
    ELSE "ok"

\* Quote removal.
Unquote(text) == SelectSeq(text, LAMBDA c : c # Q)

(***************************************************************************)
(* Exceptions and the command log.                                         *)
(***************************************************************************)
NoError == [type |-> "None", msg |-> <<>>]

\* sh raises ErrorReturnCode when the remote command exits non-zero.
ErrorReturnCode(cmd) == [type |-> "ErrorReturnCode", msg |-> <<cmd.name>> \o cmd.args]

\* raise Exception(...)
Exception(msg) == [type |-> "Exception", msg |-> msg]

Cmd(name, args) == [name |-> name, args |-> args]

(***************************************************************************)
(* ISCSI.append_cfg and ISCSI.remove_cfg.  Each takes the remote files and *)
(* returns the files it leaves, the exception it raises and the remote     *)
(* commands it issues.                                                     *)
(***************************************************************************)
\* The loop of append_cfg over `ls`, the lines still to do.  cfg is the content
\* read once before the loop; it is not read again after an echo.
RECURSIVE append_lines(_, _, _, _, _)
append_lines(files, fname, cfg, ls, log) ==
    IF ls = <<>> THEN [fs |-> files, err |-> NoError, cmds |-> log]
    ELSE LET line == Head(ls)
             echo == Cmd("echo", <<"-e">> \o line \o <<">> " \o fname>>)
         IN  IF re_search(line, cfg)
             THEN append_lines(files, fname, cfg, Tail(ls), log)
             ELSE IF ShellStatus(line) # "ok"
             THEN [fs |-> files, err |-> ErrorReturnCode(echo), cmds |-> log \o <<echo>>]
             ELSE append_lines([files EXCEPT ![fname] = @ \o Unquote(line) \o <<NL>>],
                               fname, cfg, Tail(ls), log \o <<echo>>)

append_cfg(files, fname, ls) ==
    LET cat == Cmd("cat", <<fname>>)
    IN  IF fname \notin DOMAIN files
        THEN [fs |-> files, err |-> ErrorReturnCode(cat), cmds |-> <<cat>>]
        ELSE append_lines(files, fname, files[fname], ls, <<cat>>)

\* remove_lines without the terminator: cfg.replace(line, '').
RECURSIVE remove_lines_no_eol(_, _)
remove_lines_no_eol(cfg, ls) ==
    IF ls = <<>> THEN cfg
    ELSE remove_lines_no_eol(Remove(cfg, Head(ls)), Tail(ls))

\* The loop of remove_cfg: cfg = cfg.replace(line + '\n', '') for each line.
RECURSIVE remove_lines(_, _)
remove_lines(cfg, ls) ==
    IF ls = <<>> THEN cfg
    ELSE remove_lines(Remove(cfg, Head(ls) \o <<NL>>), Tail(ls))

\* files with `path` created or overwritten
Put(files, path, content) ==
    [p \in DOMAIN files \cup {path} |-> IF p = path THEN content ELSE files[p]]

\* files without `path`
Unlink(files, path) == [p \in DOMAIN files \ {path} |-> files[p]]

\* revert_cfg without its mv: the failed write stays in place.
revert_cfg_keeps_write(files, fname, fbackup, fedit) ==
    Put(files, fedit, files[fname])

\* The mismatch branch of remove_cfg: cp -a fname fedit; mv fbackup fname.
revert_cfg(files, fname, fbackup, fedit) ==
    Unlink(Put(Put(files, fedit, files[fname]), fname, files[fbackup]), fbackup)

\* `verified` tells how far the operation came: "unread" when the write itself
\* failed, else the outcome of the comparison of cfg with the content re-read.
remove_cfg(files, fname, ls) ==
    LET cat     == Cmd("cat", <<fname>>)
        fbackup == fname \o ".BACKUP"
        fedit   == fname \o ".EDIT"
    IN  IF fname \notin DOMAIN files
        THEN [fs |-> files, err |-> ErrorReturnCode(cat), cmds |-> <<cat>>,
              cfg |-> <<>>, new_cfg |-> <<>>, verified |-> "unread"]
        ELSE
        LET cfg    == remove_lines(files[fname], ls)
            cp     == Cmd("cp", <<"-a", fname, fbackup>>)
            echo   == Cmd("echo", <<"-e", "-n", Q>> \o cfg \o <<Q, "> " \o fname>>)
            source == <<Q>> \o cfg \o <<Q>>
            saved  == Put(files, fbackup, files[fname])
            log    == <<cat, cp, echo>>
        IN  CASE ShellStatus(source) = "syntax" ->
                   [fs |-> saved, err |-> ErrorReturnCode(echo), cmds |-> log,
                    cfg |-> cfg, new_cfg |-> <<>>, verified |-> "unread"]
              [] ShellStatus(source) = "split" ->
                   \* the redirection of the last command truncates the file
                   [fs |-> Put(saved, fname, <<>>), err |-> ErrorReturnCode(echo),
                    cmds |-> log, cfg |-> cfg, new_cfg |-> <<>>, verified |-> "unread"]
              [] OTHER ->
                   LET written == Put(saved, fname, Unquote(source))
                       new_cfg == written[fname]
                   IN  IF cfg # new_cfg
                       THEN [fs   |-> revert_cfg(written, fname, fbackup, fedit),
                             err  |-> Exception(<<"Configuration file reverted. Check ",
                                                  fedit, " for more details">>),
                             cmds |-> log \o <<cat, Cmd("cp", <<"-a", fname, fedit>>),
                                               Cmd("mv", <<fbackup, fname>>)>>,
                             cfg  |-> cfg, new_cfg |-> new_cfg, verified |-> "mismatch"]
                       ELSE [fs   |-> Unlink(written, fbackup),
                             err  |-> NoError,
                             cmds |-> log \o <<cat, Cmd("rm", <<fbackup>>)>>,
                             cfg  |-> cfg, new_cfg |-> new_cfg, verified |-> "match"]

(***************************************************************************)
(* Editor runs: append_cfg and remove_cfg applied, in any order, to one    *)
(* file of any content with one tuple of lines.                            *)
(***************************************************************************)
EditedFile == "/etc/rc.d/boot.local"

CfgChars == {"a", "b", DOT, Q, NL}

\* The lines an edit is asked for: plain ones, one of which is a proper suffix
\* of another, one with the wildcard, and one quoted as Target.deploy quotes
\* its LUN line.
CfgLines == {<<"a">>, <<"b">>, <<"b", "a">>, <<DOT>>, <<Q, "a", Q>>}

\* One line, as for the restart line of Target.deploy, or two.
LineTuples == {<<l>> : l \in CfgLines} \cup {<<l, m>> : l, m \in CfgLines}

\* No object under deployment.
NoTarget == [device |-> "", path |-> "", iqn_id |-> "", size |-> 0]

\* None, for a name: `not self.name` holds of it.
Unset == <<>>

NoInitiator == [target_host |-> "", iqn_id |-> <<>>, name |-> Unset]

NoDiscovery == [listed |-> <<>>, text |-> <<>>]

\* No key file pair on disk.
NoKey == 0

\* No SSH object constructed, nothing of ~/.ssh looked at, no watcher running.
NoSession ==
    /\ sessions = <<>>
    /\ keyfile = NoKey
    /\ authorized = <<>>
    /\ events = <<>>
    /\ interact = <<>>

NoDeployment ==
    /\ pc = "idle"
    /\ exported = {}
    /\ target = NoTarget
    /\ loops = <<>>
    /\ start = [fs |-> fs, loops |-> <<>>]
    /\ persisted = <<>>
    /\ deploys = 0
    /\ initiator = NoInitiator
    /\ discovery = NoDiscovery

editVars == <<lines, ops>>
tgtVars  == <<target, loops, start, persisted, deploys, exported>>
iniVars  == <<initiator, discovery>>
sshVars  == <<sessions, keyfile, authorized, events, interact>>

deployVars == <<pc, tgtVars, iniVars>>

InitCfg ==
    /\ \E c \in SeqsUpTo(CfgChars, MaxCfgLen) : fs = [p \in {EditedFile} |-> c]
    /\ lines \in LineTuples
    /\ cmds = <<>>
    /\ err = NoError
    /\ ops = <<>>
    /\ NoDeployment
    /\ NoSession

OpRecord(op, r) ==
    [op     |-> op,
     before |-> fs,
     after  |-> r.fs,
     cfg      |-> IF op = "remove" THEN r.cfg ELSE <<>>,
     new_cfg  |-> IF op = "remove" THEN r.new_cfg ELSE <<>>,
     verified |-> IF op = "remove" THEN r.verified ELSE "unread",
     err    |-> r.err]

AppendCfg ==
    /\ Len(ops) < MaxOps
    /\ \E r \in {append_cfg(fs, EditedFile, lines)} :
           /\ fs' = r.fs
           /\ err' = r.err
           /\ cmds' = cmds \o r.cmds
           /\ ops' = Append(ops, OpRecord("append", r))
    /\ UNCHANGED <<lines, deployVars, sshVars>>

RemoveCfg ==
    /\ Len(ops) < MaxOps
    /\ \E r \in {remove_cfg(fs, EditedFile, lines)} :
           /\ fs' = r.fs
           /\ err' = r.err
           /\ cmds' = cmds \o r.cmds
           /\ ops' = Append(ops, OpRecord("remove", r))
    /\ UNCHANGED <<lines, deployVars, sshVars>>

NextCfg == AppendCfg \/ RemoveCfg

SpecCfg == InitCfg /\ [][NextCfg]_vars

(***************************************************************************)
(* Claims about the editor, checked under SpecCfg.                         *)
(***************************************************************************)
Returned(o) == o.err = NoError

\* The edited file before and after operation o.
Before(o) == o.before[EditedFile]
After(o)  == o.after[EditedFile]

\* C1: for every initial content and every tuple of lines L, append_cfg(fname, L)
\* run twice leaves the file as one run left it, with each line of L occurring
\* exactly once.
C1_AppendTwiceIsOnce ==
    \A i \in 1..(Len(ops) - 1) :
        (/\ ops[i].op = "append" /\ Returned(ops[i])
         /\ ops[i + 1].op = "append" /\ Returned(ops[i + 1]))
        => /\ After(ops[i + 1]) = After(ops[i])
           /\ \A k \in DOMAIN lines : CountLine(After(ops[i + 1]), lines[k]) = 1

\* C2: when the content re-read after the write of remove_cfg differs from the
\* expected filtered content, remove_cfg ends by raising, the live file is
\* byte-equal to its content before the operation, fname.EDIT holds the failed
\* write, and the error names that path.
C2_MismatchReverts ==
    \A i \in DOMAIN ops :
        (ops[i].op = "remove" /\ ops[i].verified = "mismatch")
        => /\ After(ops[i]) = Before(ops[i])
           /\ (EditedFile \o ".EDIT") \in DOMAIN ops[i].after
           /\ ops[i].after[EditedFile \o ".EDIT"] = ops[i].new_cfg
           /\ ops[i].new_cfg # ops[i].cfg
           /\ ops[i].err.type = "Exception"
           /\ (EditedFile \o ".EDIT") \in Range(ops[i].err.msg)

\* A remove_cfg whose write came back different from a content that the edit
\* had changed: the revert has something to undo.
C2_Witness ==
    \E i \in DOMAIN ops :
        /\ ops[i].op = "remove" /\ ops[i].verified = "mismatch"
        /\ ops[i].new_cfg # Before(ops[i])
        /\ ops[i].cfg # Before(ops[i])

\* Every line of cfg has its terminator.
Terminated(cfg) == cfg = <<>> \/ cfg[Len(cfg)] = NL

\* C3: remove_cfg(fname, L) removes only whole lines equal to a line of L: the
\* lines of the content it writes are the lines of the original file that equal
\* no line of L, unmodified and in their order.  Stated for the files whose lines
\* all have their terminator.
C3_RemovesWholeLinesOnly ==
    \A i \in DOMAIN ops :
        (ops[i].op = "remove" /\ Terminated(Before(ops[i])))
        => FileLines(ops[i].cfg)
             = SelectSeq(FileLines(Before(ops[i])), LAMBDA l : l \notin Range(lines))

\* A line of characters that mean nothing to the regular-expression engine or
\* to the remote shell.
PlainLine(l) == Q \notin Range(l) /\ DOT \notin Range(l)

\* The lines of L occur in cfg apart from the other lines: cfg is empty or
\* newline-terminated, the lines of L are plain and pairwise distinct, each is
\* one line of cfg and, with its terminator, occurs nowhere else in cfg.
OccursApart(cfg, ls) ==
    /\ Terminated(cfg)
    /\ \A k \in DOMAIN ls : PlainLine(ls[k])
    /\ \A j, k \in DOMAIN ls : j # k => ls[j] # ls[k]
    /\ \A k \in DOMAIN ls :
          /\ CountLine(cfg, ls[k]) = 1
          /\ Cardinality({p \in DOMAIN cfg : MatchAt(cfg, p, ls[k] \o <<NL>>)}) = 1

RECURSIVE Block(_)
Block(ls) == IF ls = <<>> THEN <<>> ELSE Head(ls) \o <<NL>> \o Block(Tail(ls))

\* cfg ends with the lines of L, in L's order.
EndsWithBlock(cfg, ls) ==
    /\ Len(cfg) >= Len(Block(ls))
    /\ MatchAt(cfg, Len(cfg) - Len(Block(ls)) + 1, Block(ls))

None == "<None>"

\* '%s' % x
Str(x) == IF x = None THEN "None" ELSE x

IetdConf   == "/etc/ietd.conf"
BootLocal  == "/etc/rc.d/boot.local"
VolumeFile == "/proc/net/iet/volume"

IqnPrefix == "iqn.2015-01.qa.cloud.suse.de:"

\* 'iqn.2015-01.qa.cloud.suse.de:%s' % iqn_id
Iqn(iqn_id) == <<IqnPrefix, iqn_id>>

LoopDevices == {"/dev/loop0", "/dev/loop1"}
Devices     == LoopDevices \cup {"/dev/sdc"}
Ids         == {"id01", "id02"}

\* device.startswith('/dev/loop')
IsLoopDevice(device) == device \in LoopDevices

\* The backing path __main__ gives a Target.
MainPath(device, iqn_id) ==
    IF IsLoopDevice(device) THEN "/tmp/" \o iqn_id \o "-iscsi.loop" ELSE None

\* One line of losetup -a for a bound device, and the output for all of them.
LosetupLine(l) == <<l.ldev, ": [0805]:12 (", l.lfile, ")", NL>>
losetup_a(table) == [i \in DOMAIN table |-> LosetupLine(table[i])]

\* pattern.match(line).groups() for r'^(/dev/loop\d+):.*\((.*)\)'
Groups(line) == <<line[1], line[3]>>

\* Target.find_loop: the first listed device equal to `loop`, with its file.
find_loop(table, loop) ==
    LET out  == losetup_a(table)
        hits == {i \in DOMAIN out : Groups(out[i])[1] = loop}
    IN  IF hits = {} THEN <<>>
        ELSE Groups(out[CHOOSE i \in hits : \A j \in hits : i <= j])

losetup_query == Cmd("losetup", <<"-a">>)

\* create_loop without its first find_loop test.
create_loop_unchecked(files, table, loop, path, size) ==
    [fs    |-> Put(files, path, <<"partition table", "zeros">>),
     loops |-> Append(table, [ldev |-> loop, lfile |-> path]),
     err   |-> NoError,
     cmds  |-> <<losetup_query,
                 Cmd("dd", <<"if=/dev/zero", "of=" \o path, "bs=1M", "count=1">>),
                 Cmd("fdisk", <<path>>),
                 Cmd("losetup", <<loop, path>>),
                 losetup_query>>]

\* Target.create_loop: the files and bound devices it leaves, the exception it
\* raises and the commands it issues.
create_loop(files, table, loop, path, size) ==
    LET is_in == find_loop(table, loop)
    IN  IF is_in # <<>>
        THEN [fs    |-> files,
              loops |-> table,
              err   |-> Exception(<<"loop device already installed: ",
                                    is_in[1], " / ", is_in[2]>>),
              cmds  |-> <<losetup_query>>]
        ELSE LET zeroed == Put(files, path, <<"zeros">>)
                 parted == Put(zeroed, path, <<"partition table", "zeros">>)
                 bound  == Append(table, [ldev |-> loop, lfile |-> path])
             IN  [fs    |-> parted,
                  loops |-> bound,
                  err   |-> IF find_loop(bound, loop) = <<>>
                            THEN Exception(<<"fail to create loop device">>)
                            ELSE NoError,
                  cmds  |-> <<losetup_query,
                              Cmd("dd", <<"if=/dev/zero", "of=" \o path, "bs=1M",
                                          "count=1">>),
                              Cmd("fdisk", <<path>>),
                              Cmd("losetup", <<loop, path>>),
                              losetup_query>>]

\* The lines Target.deploy appends to /etc/ietd.conf.
IetdLines(t) ==
    << <<"IncomingUser user passwd">>,
       <<"Target ", IqnPrefix, t.iqn_id>>,
       <<Q, "\tLun 0 Path=", t.device, Q>> >>

RestartLine == <<"rciscsitarget restart">>

\* 'losetup %s %s' % (self.device, self.path)
RebindLine(t) == <<"losetup ", t.device, " ", Str(t.path)>>

\* The lines Target.deploy removes from and appends to /etc/rc.d/boot.local.
\* The boot-persistence step without its removal of the restart line.
BootRemoveNothing == <<>>
BootRemoveLines    == <<RestartLine>>
BootAppendLines(t) == <<RebindLine(t), RestartLine>>

\* verify without its test.
verify_unchecked(files, iqn_id) == NoError

\* The last statement of Target.deploy, on the export table read.
verify(files, iqn_id) ==
    IF ~Contains(files[VolumeFile], Iqn(iqn_id))
    THEN Exception(<<"Unable to deploy the iSCSI target">>)
    ELSE NoError

\* What /proc/net/iet/volume shows for an exported target.
VolumeEntry(iqn_id) == <<"tid:1 name:", IqnPrefix, iqn_id, NL>>

\* The export tables the target service may come up with.
VolumeTables == {<<>>} \cup {VolumeEntry(i) : i \in Ids}

\* The boot scripts a host may start with: a newline-terminated one, one whose
\* last line has no terminator, one with a quoted word.
BootScripts ==
    { <<"#! /bin/sh", NL>>,
      <<"#! /bin/sh", NL, "exit 0">>,
      <<"echo ", Q, "boot", Q, NL>> }

\* The loop devices a host may start with: none, or one bound to an image.
OldImage == "/var/lib/old.img"
InitialLoops == { <<>>, <<[ldev |-> "/dev/loop1", lfile |-> OldImage]>> }

\* The Target objects: what __main__ constructs, and a loop device given no path.
Targets ==
    { [device |-> d, path |-> p, iqn_id |-> i, size |-> 1] :
          d \in Devices, p \in {None} \cup {MainPath(dd, ii) : dd \in Devices, ii \in Ids},
          i \in Ids }

ValidTarget(t) == t.path \in {None, MainPath(t.device, t.iqn_id)}

Init ==
    /\ \E b \in BootScripts :
           fs = [p \in {IetdConf, BootLocal, VolumeFile, OldImage} |->
                   CASE p = IetdConf  -> <<"# ietd.conf", NL>>
                     [] p = BootLocal -> b
                     [] p = OldImage  -> <<"data">>
                     [] OTHER         -> <<>>]
    /\ loops \in InitialLoops
    /\ cmds = <<>>
    /\ err = NoError
    /\ lines = <<>>
    /\ ops = <<>>
    /\ pc = "idle"
    /\ target = NoTarget
    /\ start = [fs |-> fs, loops |-> loops]
    /\ persisted = <<>>
    /\ deploys = 0
    /\ exported = {}
    /\ initiator = NoInitiator
    /\ discovery = NoDiscovery
    /\ NoSession

\* A deploy() that goes on after a raise.
RunningOn(step) == pc = step
Running(step) == pc = step /\ err = NoError

\* The previous deploy(), if any, has returned or raised.
Finished == pc \in {"idle", "done"} \/ err # NoError

\* Target(node, device, path, id) and the call of deploy().
T_new ==
    /\ Finished
    /\ deploys < MaxDeploys
    /\ \E t \in Targets :
           /\ ValidTarget(t)
           /\ target' = t
    /\ pc' = "zypper"
    /\ err' = NoError
    /\ cmds' = <<>>
    /\ start' = [fs |-> fs, loops |-> loops]
    /\ deploys' = deploys + 1
    /\ UNCHANGED <<fs, loops, persisted, exported, editVars, sshVars, iniVars>>

\* self.zypper('iscsitarget')
T_zypper ==
    /\ Running("zypper")
    /\ cmds' = Append(cmds, Cmd("zypper", <<"--non-interactive", "install",
                                            "--no-recommends", "iscsitarget">>))
    /\ pc' = "loop"
    /\ UNCHANGED <<fs, err, loops, target, start, persisted, deploys, exported, editVars, sshVars, iniVars>>

\* if self.device.startswith('/dev/loop'): ...
T_loop ==
    /\ Running("loop")
    /\ IF ~IsLoopDevice(target.device)
       THEN /\ pc' = "append_ietd"
            /\ UNCHANGED <<fs, loops, err, cmds>>
       ELSE IF target.path = None
       THEN /\ err' = Exception(<<"Please, provide a path for a loop device">>)
            /\ UNCHANGED <<fs, loops, pc, cmds>>
       ELSE \E r \in {create_loop(fs, loops, target.device, target.path, target.size)} :
              /\ fs' = r.fs
              /\ loops' = r.loops
              /\ err' = r.err
              /\ cmds' = cmds \o r.cmds
              /\ pc' = IF r.err = NoError THEN "append_ietd" ELSE pc
    /\ UNCHANGED <<target, start, persisted, deploys, exported, editVars, sshVars, iniVars>>

\* self.append_cfg('/etc/ietd.conf', lines)
T_append_ietd ==
    /\ Running("append_ietd")
    /\ \E r \in {append_cfg(fs, IetdConf, IetdLines(target))} :
          /\ fs' = r.fs
          /\ err' = r.err
          /\ cmds' = cmds \o r.cmds
          /\ pc' = IF r.err = NoError THEN "service" ELSE pc
          /\ exported' = IF r.err = NoError
                         THEN exported \cup {<<target.device, target.iqn_id>>}
                         ELSE exported
    /\ UNCHANGED <<loops, target, start, persisted, deploys, editVars, sshVars, iniVars>>

\* self.service('iscsitarget', True)
T_service ==
    /\ Running("service")
    /\ cmds' = Append(cmds, Cmd("chkconfig", <<"iscsitarget", "on">>))
    /\ pc' = "restart"
    /\ UNCHANGED <<fs, err, loops, target, start, persisted, deploys, exported, editVars, sshVars, iniVars>>

\* self.ssh.rciscsitarget('restart'): the service comes up with an export
\* table of its own making.
T_restart ==
    /\ Running("restart")
    /\ cmds' = Append(cmds, Cmd("rciscsitarget", <<"restart">>))
    /\ \E v \in VolumeTables : fs' = Put(fs, VolumeFile, v)
    /\ pc' = "remove_boot"
    /\ UNCHANGED <<err, loops, target, start, persisted, deploys, exported, editVars, sshVars, iniVars>>

\* self.remove_cfg('/etc/rc.d/boot.local', lines)
T_remove_boot ==
    /\ Running("remove_boot")
    /\ \E r \in {remove_cfg(fs, BootLocal, BootRemoveLines)} :
          /\ fs' = r.fs
          /\ err' = r.err
          /\ cmds' = cmds \o r.cmds
          /\ pc' = IF r.err = NoError THEN "append_boot" ELSE pc
    /\ UNCHANGED <<loops, target, start, persisted, deploys, exported, editVars, sshVars, iniVars>>

\* self.append_cfg('/etc/rc.d/boot.local', lines)
T_append_boot ==
    /\ Running("append_boot")
    /\ \E r \in {append_cfg(fs, BootLocal, BootAppendLines(target))} :
          /\ fs' = r.fs
          /\ err' = r.err
          /\ cmds' = cmds \o r.cmds
          /\ pc' = IF r.err = NoError THEN "verify" ELSE pc
          /\ persisted' = IF r.err = NoError
                          THEN Append(persisted, [device |-> target.device,
                                                  path   |-> target.path,
                                                  before |-> start.fs[BootLocal]])
                          ELSE persisted
    /\ UNCHANGED <<loops, target, start, deploys, exported, editVars, sshVars, iniVars>>

\* result = str(self.ssh.cat('/proc/net/iet/volume')); if ... not in result: raise
T_verify ==
    /\ Running("verify")
    /\ cmds' = Append(cmds, Cmd("cat", <<VolumeFile>>))
    /\ err' = verify(fs, target.iqn_id)
    /\ pc' = IF err' = NoError THEN "done" ELSE pc
    /\ UNCHANGED <<fs, loops, target, start, persisted, deploys, exported, editVars, sshVars, iniVars>>

\* The first remote command of each statement of deploy().
FirstCommand(step) ==
    CASE step = "zypper"      -> Cmd("zypper", <<"--non-interactive", "install",
                                               "--no-recommends", "iscsitarget">>)
      [] step = "loop"        -> losetup_query
      [] step = "append_ietd" -> Cmd("cat", <<IetdConf>>)
      [] step = "service"     -> Cmd("chkconfig", <<"iscsitarget", "on">>)
      [] step = "restart"     -> Cmd("rciscsitarget", <<"restart">>)
      [] step = "remove_boot" -> Cmd("cat", <<BootLocal>>)
      [] step = "append_boot" -> Cmd("cat", <<BootLocal>>)
      [] OTHER                -> Cmd("cat", <<VolumeFile>>)

TargetSteps == {"zypper", "loop", "append_ietd", "service", "restart",
                "remove_boot", "append_boot", "verify"}

\* A remote command exits non-zero (the host is unreachable, the tool fails):
\* sh raises and the exception leaves deploy().
T_command_fails ==
    /\ pc \in TargetSteps
    /\ err = NoError
    /\ pc = "loop" => IsLoopDevice(target.device) /\ target.path # None
    /\ cmds' = Append(cmds, FirstCommand(pc))
    /\ err' = ErrorReturnCode(FirstCommand(pc))
    /\ UNCHANGED <<fs, pc, loops, target, start, persisted, deploys, exported, editVars, sshVars, iniVars>>

Next ==
    \/ T_new
    \/ T_zypper
    \/ T_loop
    \/ T_append_ietd
    \/ T_service
    \/ T_restart
    \/ T_remove_boot
    \/ T_append_boot
    \/ T_verify
    \/ T_command_fails

Spec == Init /\ [][Next]_vars

(***************************************************************************)
(* Claims about Target.deploy(), checked under Spec.                       *)
(***************************************************************************)
\* Every finished boot-persistence step so far was of one device and path.
SameBinding ==
    \A i \in DOMAIN persisted :
        /\ persisted[i].device = persisted[1].device
        /\ persisted[i].path = persisted[1].path

\* No boot-persistence step is under way: none has removed a line that it has
\* not yet appended again.
BootStepOver == pc # "append_boot"

\* C5: starting from a boot script that contains neither line, after the
\* boot-persistence step of Target.deploy() has run n >= 1 times with the same
\* device and backing path, /etc/rc.d/boot.local contains exactly one
\* 'rciscsitarget restart' line and exactly one 'losetup <device> <path>' line.
C5_OneRestartOneRebind ==
    (/\ Len(persisted) >= 1
     /\ SameBinding
     /\ BootStepOver
     /\ CountLine(persisted[1].before, RestartLine) = 0
     /\ CountLine(persisted[1].before, RebindLine(persisted[1])) = 0)
    => /\ CountLine(fs[BootLocal], RestartLine) = 1
       /\ CountLine(fs[BootLocal], RebindLine(persisted[1])) = 1

\* The loop device of the current Target was bound when its deploy() began.
BoundAtStart == find_loop(start.loops, target.device) # <<>>

\* A zero-fill, partitioning or bind command.
ChangesLoop(c) == c.name \in {"dd", "fdisk"} \/ (c.name = "losetup" /\ c.args # <<"-a">>)

\* C6: create_loop on a loop path that is already bound raises the already-bound
\* error before any zero-fill, partitioning or bind command is issued, the
\* existing binding and its backing file are unchanged, and Target.deploy() has
\* aborted without modifying any configuration file.  Stated of every state
\* after the call of create_loop in which losetup -a has answered.
C6_AlreadyBoundAborts ==
    (/\ IsLoopDevice(target.device) /\ target.path # None
     /\ BoundAtStart
     /\ pc \notin {"idle", "zypper"}
     /\ ~Running("loop")
     /\ err.type # "ErrorReturnCode")
    => /\ pc = "loop"
       /\ err = Exception(<<"loop device already installed: ", target.device, " / ",
                            find_loop(start.loops, target.device)[2]>>)
       /\ \A i \in DOMAIN cmds : ~ChangesLoop(cmds[i])
       /\ loops = start.loops
       /\ fs = start.fs

\* A second deploy() on the loop device that the first one bound.
C6_Witness ==
    /\ deploys = 2
    /\ find_loop(start.loops, target.device) = <<target.device, target.path>>
    /\ IsLoopDevice(target.device) /\ target.path # None
    /\ BoundAtStart
    /\ pc = "loop"
    /\ err.type = "Exception"
    /\ target.path \in DOMAIN fs

\* C9: Target.deploy() returns normally only if the export table read after all
\* other steps contains 'iqn.2015-01.qa.cloud.suse.de:<id>'; when the table read
\* lacks it, deploy() raises the verification error, every earlier step having
\* succeeded.
C9_ReturnsOnlyIfExported ==
    /\ pc = "done" => /\ err = NoError
                      /\ Contains(fs[VolumeFile], Iqn(target.iqn_id))
    /\ (pc = "verify" /\ err # NoError /\ err.type # "ErrorReturnCode")
       => /\ ~Contains(fs[VolumeFile], Iqn(target.iqn_id))
          /\ err = Exception(<<"Unable to deploy the iSCSI target">>)

\* deploy() has installed, created the loop device, appended its configuration
\* and persisted the boot lines, and raises on an export table that shows
\* another target only.
C9_Witness ==
    /\ pc = "verify"
    /\ err = Exception(<<"Unable to deploy the iSCSI target">>)
    /\ fs[VolumeFile] # <<>>
    /\ IsLoopDevice(target.device)
    /\ find_loop(loops, target.device) # <<>>
    /\ find_loop(start.loops, target.device) = <<>>
    /\ CountLine(fs[IetdConf], <<"Target ", IqnPrefix, target.iqn_id>>) = 1
    /\ CountLine(fs[BootLocal], RestartLine) = 1
    /\ Len(persisted) >= 1
    /\ persisted[Len(persisted)].device = target.device

\* The boot-persistence step of the current deploy() is over.
Persisted == pc \in {"verify", "done"}

\* A line of the boot script that re-binds a loop device.
IsRebindLine(l) == Len(l) >= 1 /\ l[1] = "losetup "

\* C16: after the boot-persistence step of any sequence of Target.deploy() runs
\* against one host, the 'rciscsitarget restart' line of /etc/rc.d/boot.local
\* comes after every 'losetup' re-bind line.
C16_RestartAfterRebinds ==
    (Len(persisted) >= 1 /\ BootStepOver)
    => LET f == FileLines(fs[BootLocal])
       IN  \A i, j \in DOMAIN f :
               (IsRebindLine(f[i]) /\ f[j] = RestartLine) => i < j

\* Two deploy() runs of two loop devices have persisted: the boot script holds
\* two re-bind lines and, after them, the restart line.
C16_Witness ==
    /\ Len(persisted) = 2
    /\ persisted[1].device # persisted[2].device
    /\ IsLoopDevice(persisted[1].device) /\ IsLoopDevice(persisted[2].device)
    /\ Persisted
    /\ LET f == FileLines(fs[BootLocal])
       IN  /\ Cardinality({i \in DOMAIN f : IsRebindLine(f[i])}) = 2
           /\ f[Len(f)] = RestartLine

\* The lines of ietd.conf as the remote shell writes them.
TargetLine(iqn_id) == <<"Target ", IqnPrefix, iqn_id>>
LunLine(device)    == <<"\tLun 0 Path=", device>>

IsTargetLine(l) == Len(l) = 3 /\ l[1] = "Target "
IsLunLine(l)    == Len(l) = 2 /\ l[1] = "\tLun 0 Path="

\* The Target line whose block line i of f lies in: the last one before it
\* (0 if there is none).
Owner(f, i) ==
    LET before == {j \in 1..(i - 1) : IsTargetLine(f[j])}
    IN  IF before = {} THEN 0 ELSE CHOOSE j \in before : \A k \in before : k <= j

\* C17: after any sequence of Target.deploy() runs against one host's
\* /etc/ietd.conf, every 'Lun 0 Path=<device>' line lies in the block of the
\* Target line of the id it was deployed with, and each Target block holds at
\* most one Lun 0 line.
C17_LunInOwnBlock ==
    LET f == FileLines(fs[IetdConf])
    IN  /\ \A i \in DOMAIN f :
               IsLunLine(f[i])
               => /\ Owner(f, i) # 0
                  /\ <<f[i][2], f[Owner(f, i)][3]>> \in exported
        /\ \A i, j \in DOMAIN f :
               (IsLunLine(f[i]) /\ IsLunLine(f[j]) /\ Owner(f, i) = Owner(f, j))
               => i = j

\* How many re-bind commands a boot script holds.
RebindCount(cfg) == Cardinality({i \in DOMAIN cfg : cfg[i] = "losetup "})

\* C19: when Target.deploy() runs with a device that is not a loop device (no
\* backing path), it creates no loop device and its boot-persistence step adds
\* no 'losetup' line to /etc/rc.d/boot.local.
C19_NoRebindForBlockDevice ==
    (target # NoTarget /\ ~IsLoopDevice(target.device))
    => /\ loops = start.loops
       /\ \A i \in DOMAIN cmds : ~ChangesLoop(cmds[i])
       /\ RebindCount(fs[BootLocal]) = RebindCount(start.fs[BootLocal])

(***************************************************************************)
(* Initiator: deploy() and logout().                                       *)
(*                                                                         *)
(* The text of a discovery is a sequence of fields and separators: a       *)
(* portal, a blank, the characters of an iqn, a newline.  An id suffix is  *)
(* 'id0' and digits, so that 'id01' occurs in 'id012' and 'id02' does not. *)
(***************************************************************************)
IscsidConf == "/etc/iscsid.conf"
Portal     == "10.0.0.1:3260,1"
SP         == " "

\* The names a portal may list.
ListedNames == { <<IqnPrefix, "id0", "1">>,
                 <<IqnPrefix, "id0", "2">>,
                 <<IqnPrefix, "id0", "1", "2">> }

\* The ids an Initiator may be given: --id id01, id02, id03.
RequestedIds == { <<"id0", "1">>, <<"id0", "2">>, <<"id0", "3">> }

\* iscsiadm -m discovery prints one line '<portal> <iqn>' per listed target,
\* each with its newline; `terminated` tells whether the last line has one.
RECURSIVE DiscoveryText(_, _)
DiscoveryText(listed, terminated) ==
    IF listed = <<>> THEN <<>>
    ELSE <<Portal, SP>> \o Head(listed)
         \o (IF Len(listed) > 1 \/ terminated THEN <<NL>> ELSE <<>>)
         \o DiscoveryText(Tail(listed), terminated)

Discoveries ==
    { [listed |-> l, text |-> DiscoveryText(l, t)] :
          l \in SeqsUpTo(ListedNames, MaxListed), t \in BOOLEAN }

\* s.split(): the fields between runs of whitespace, none of them empty.
SplitWs(s) ==
    LET blanks == [i \in DOMAIN s |-> IF s[i] \in {SP, NL, "\t"} THEN SP ELSE s[i]]
    IN  SelectSeq(Split(blanks, SP), LAMBDA f : f # <<>>)

\* The lines appended to /etc/iscsid.conf.
IscsidLines ==
    << <<"node.startup = automatic">>,
       <<"node.session.auth.authmethod = CHAP">>,
       <<"node.session.auth.username = user">>,
       <<"node.session.auth.password = passwd">>,
       <<"discovery.sendtargets.auth.authmethod = CHAP">>,
       <<"discovery.sendtargets.auth.username = user">>,
       <<"discovery.sendtargets.auth.password = passwd">> >>

\* The tuple unpacking `_, name = name.split()` fails on other than two fields.
ValueError == [type |-> "ValueError", msg |-> <<"need more than / too many values to unpack">>]

\* 'Target with ID %s not found: [%s]' % (self.iqn_id, discovered)
NotFound(iqn_id, text) ==
    Exception(<<"Target with ID ">> \o iqn_id \o <<" not found: [">> \o text \o <<"]">>)

\* resolve that goes on to the last matching line: the loop without its break.
RECURSIVE resolve_last(_, _, _)
resolve_last(fields, iqn_id, name) ==
    IF fields = <<>> THEN [name |-> name, err |-> NoError]
    ELSE LET parts == SplitWs(Head(fields))
         IN  IF Len(parts) # 2 THEN [name |-> name, err |-> ValueError]
             ELSE resolve_last(Tail(fields), iqn_id,
                               IF Contains(parts[2], iqn_id) THEN parts[2] ELSE name)

\* The loop of Initiator.deploy over discovered.split('\n'): the name it leaves
\* in self.name and the exception the unpacking raises.
RECURSIVE resolve(_, _, _)
resolve(fields, iqn_id, name) ==
    IF fields = <<>> THEN [name |-> name, err |-> NoError]
    ELSE LET parts == SplitWs(Head(fields))
         IN  IF Len(parts) # 2 THEN [name |-> name, err |-> ValueError]
             ELSE IF Contains(parts[2], iqn_id) THEN [name |-> parts[2], err |-> NoError]
             ELSE resolve(Tail(fields), iqn_id, name)

\* '%s' % name, for the command line
StrName(name) == IF name = Unset THEN <<"None">> ELSE name

login_cmd(name)  == Cmd("iscsiadm", <<"-m", "node", "-n">> \o StrName(name) \o <<"--login">>)
logout_cmd(name) == Cmd("iscsiadm", <<"-m", "node", "-n">> \o StrName(name) \o <<"--logout">>)

discovery_cmd(host) ==
    Cmd("iscsiadm", <<"-m", "discovery", "--type=st", "--portal=" \o host>>)

InitInitiator ==
    /\ fs = [p \in {IscsidConf} |-> <<"# iscsid.conf", NL>>]
    /\ \E i \in RequestedIds :
           initiator = [target_host |-> "192.168.124.10", iqn_id |-> i, name |-> Unset]
    /\ discovery \in Discoveries
    /\ cmds = <<>>
    /\ err = NoError
    /\ lines = <<>>
    /\ ops = <<>>
    /\ pc = "idle"
    /\ target = NoTarget
    /\ loops = <<>>
    /\ start = [fs |-> fs, loops |-> <<>>]
    /\ persisted = <<>>
    /\ deploys = 0
    /\ exported = {}
    /\ NoSession

\* initiator.deploy(): an Initiator is deployed once.
I_deploy ==
    /\ pc = "idle"
    /\ pc' = "i_zypper"
    /\ cmds' = <<>>
    /\ UNCHANGED <<fs, err, editVars, sshVars, tgtVars, iniVars>>

\* self.zypper('open-iscsi')
I_zypper ==
    /\ Running("i_zypper")
    /\ cmds' = Append(cmds, Cmd("zypper", <<"--non-interactive", "install",
                                            "--no-recommends", "open-iscsi">>))
    /\ pc' = "i_append"
    /\ UNCHANGED <<fs, err, editVars, sshVars, tgtVars, iniVars>>

\* self.append_cfg('/etc/iscsid.conf', lines)
I_append ==
    /\ Running("i_append")
    /\ \E r \in {append_cfg(fs, IscsidConf, IscsidLines)} :
          /\ fs' = r.fs
          /\ err' = r.err
          /\ cmds' = cmds \o r.cmds
          /\ pc' = IF r.err = NoError THEN "i_service" ELSE pc
    /\ UNCHANGED <<editVars, sshVars, tgtVars, iniVars>>

\* self.service('open-iscsi', True)
I_service ==
    /\ Running("i_service")
    /\ cmds' = Append(cmds, Cmd("chkconfig", <<"open-iscsi", "on">>))
    /\ pc' = "i_restart"
    /\ UNCHANGED <<fs, err, editVars, sshVars, tgtVars, iniVars>>

\* self.ssh.sh('rcopen-iscsi', 'restart')
I_restart ==
    /\ Running("i_restart")
    /\ cmds' = Append(cmds, Cmd("sh", <<"rcopen-iscsi", "restart">>))
    /\ pc' = "i_discover"
    /\ UNCHANGED <<fs, err, editVars, sshVars, tgtVars, iniVars>>

\* discovered = self.ssh.iscsiadm(...); the loop over its lines; the raise when
\* self.name is still unset.
I_discover ==
    /\ Running("i_discover")
    /\ cmds' = Append(cmds, discovery_cmd(initiator.target_host))
    /\ \E r \in {resolve(Split(discovery.text, NL), initiator.iqn_id, initiator.name)} :
          /\ initiator' = [initiator EXCEPT !.name = r.name]
          /\ err' = IF r.err # NoError THEN r.err
                    ELSE IF r.name = Unset
                    THEN NotFound(initiator.iqn_id, discovery.text)
                    ELSE NoError
    /\ pc' = IF err' = NoError THEN "i_login" ELSE pc
    /\ UNCHANGED <<fs, editVars, sshVars, tgtVars, discovery>>

\* self.ssh.iscsiadm('-m', 'node', '-n', self.name, '--login')
I_login ==
    /\ Running("i_login")
    /\ cmds' = Append(cmds, login_cmd(initiator.name))
    /\ pc' = "done"
    /\ UNCHANGED <<fs, err, editVars, sshVars, tgtVars, iniVars>>

\* initiator.logout(), outside deploy().  iscsiadm knows no node named 'None'
\* and exits non-zero for it.
I_logout ==
    /\ pc \in {"idle", "done"} \/ (pc # "logout" /\ err # NoError)
    /\ cmds' = Append(cmds, logout_cmd(initiator.name))
    /\ err' = IF initiator.name = Unset
              THEN ErrorReturnCode(logout_cmd(initiator.name))
              ELSE NoError
    /\ pc' = "logout"
    /\ UNCHANGED <<fs, editVars, sshVars, tgtVars, iniVars>>

InitiatorFirstCommand(step) ==
    CASE step = "i_zypper"   -> Cmd("zypper", <<"--non-interactive", "install",
                                              "--no-recommends", "open-iscsi">>)
      [] step = "i_append"   -> Cmd("cat", <<IscsidConf>>)
      [] step = "i_service"  -> Cmd("chkconfig", <<"open-iscsi", "on">>)
      [] step = "i_restart"  -> Cmd("sh", <<"rcopen-iscsi", "restart">>)
      [] step = "i_discover" -> discovery_cmd(initiator.target_host)
      [] OTHER               -> login_cmd(initiator.name)

InitiatorSteps == {"i_zypper", "i_append", "i_service", "i_restart", "i_discover",
                   "i_login"}

\* A remote command of deploy() exits non-zero.
I_command_fails ==
    /\ pc \in InitiatorSteps
    /\ err = NoError
    /\ cmds' = Append(cmds, InitiatorFirstCommand(pc))
    /\ err' = ErrorReturnCode(InitiatorFirstCommand(pc))
    /\ UNCHANGED <<fs, pc, editVars, sshVars, tgtVars, iniVars>>

NextInitiator ==
    \/ I_deploy
    \/ I_zypper
    \/ I_append
    \/ I_service
    \/ I_restart
    \/ I_discover
    \/ I_login
    \/ I_logout
    \/ I_command_fails

SpecInitiator == InitInitiator /\ [][NextInitiator]_vars

(***************************************************************************)
(* Claims about Initiator, checked under SpecInitiator.                    *)
(***************************************************************************)
\* The listed names that contain the requested id.
Matches == {i \in DOMAIN discovery.listed :
                Contains(discovery.listed[i], initiator.iqn_id)}

\* The discovery statement of deploy() has run and iscsiadm has answered.
Discovered ==
    \/ pc \in {"i_login", "done"}
    \/ pc = "i_discover" /\ err # NoError /\ err.type # "ErrorReturnCode"

IsLogin(c)  == c.name = "iscsiadm" /\ c.args[Len(c.args)] = "--login"
IsLogout(c) == c.name = "iscsiadm" /\ c.args[Len(c.args)] = "--logout"

\* C7: for every discovery output of lines none of whose names contains the
\* requested id, Initiator.deploy() raises the target-not-found error with the
\* raw discovery text in its message, issues no login command and leaves name
\* unset.
C7_NotFoundRaised ==
    (Discovered /\ discovery.listed # <<>> /\ Matches = {})
    => /\ pc = "i_discover"
       /\ err.type = "Exception"
       /\ Contains(err.msg, <<"Target with ID ">> \o initiator.iqn_id)
       /\ Contains(err.msg, discovery.text)
       /\ \A i \in DOMAIN cmds : ~IsLogin(cmds[i])
       /\ initiator.name = Unset

\* The first listed name, in output order, that contains the requested id.
FirstMatch == discovery.listed[CHOOSE i \in Matches : \A j \in Matches : i <= j]

\* C8: for every discovery output made of lines '<portal> <iqn>', deploy()
\* resolves name to the iqn of the first line, in output order, whose iqn
\* contains the requested id, and the login it issues is for exactly that name.
C8_FirstMatchSelected ==
    (Discovered /\ Matches # {})
    => /\ pc \in {"i_login", "done"}
       /\ initiator.name = FirstMatch
       /\ \A i \in DOMAIN cmds : IsLogin(cmds[i]) => cmds[i] = login_cmd(FirstMatch)
       /\ pc = "done" => cmds[Len(cmds)] = login_cmd(FirstMatch)

\* Entries ...:id01 then ...:id02, newline-terminated as iscsiadm prints them,
\* and --id id02: the login is for the second entry.
C8_Witness ==
    /\ pc = "done"
    /\ discovery.listed = << <<IqnPrefix, "id0", "1">>, <<IqnPrefix, "id0", "2">> >>
    /\ discovery.text[Len(discovery.text)] = NL
    /\ initiator.iqn_id = <<"id0", "2">>
    /\ initiator.name = discovery.listed[2]
    /\ cmds[Len(cmds)] = login_cmd(discovery.listed[2])

\* C10: logout() with name unset fails with the not-logged-in error and issues
\* no remote logout command; with a name resolved by deploy() it issues the
\* logout for that name.
C10_LogoutNeedsName ==
    pc = "logout"
    => IF initiator.name = Unset
       THEN /\ err.type = "NotLoggedInError"
            /\ \A i \in DOMAIN cmds : ~IsLogout(cmds[i])
       ELSE cmds[Len(cmds)] = logout_cmd(initiator.name)

(***************************************************************************)
(* Key and SSH: the local key file pair, the key-install exchange, the     *)
(* connection and the removal of the key from the remote host.             *)
(*                                                                         *)
(* The SSH objects are constructed for one host without a key of their     *)
(* own, so each makes a Key named '.<host>_iscsi_fake_id_dsa': one pair of *)
(* files that all of them read.  A key is the number of the ssh-keygen run *)
(* that made it.                                                           *)
(***************************************************************************)
Sessions == {1, 2}

AuthKeys    == "~/.ssh/authorized_keys"
AuthKeysTMP == "~/.ssh/authorized_keys.TMP"
AuthKeysBAK == "~/.ssh/authorized_keys.BAK"

\* open(self.key.pub_key()).read().strip()
PubKey(k) ==
    CASE k = 1 -> "ssh-dss AAAAB3NzaC1kc3MAAACBA1 root@admin"
      [] k = 2 -> "ssh-dss AAAAB3NzaC1kc3MAAACBA2 root@admin"
      [] OTHER -> "ssh-dss AAAAB3NzaC1kc3MAAACBA3 root@admin"

OtherEntry == "ssh-rsa AAAAB3NzaC1yc2EAAAADAQ operator@desk"

\* What authorized_keys may hold before the program runs: nothing, another
\* user's key, or that and the key an earlier run left on disk.
InitialTrust == {<<>>, <<OtherEntry>>, <<OtherEntry, PubKey(1)>>}

\* The key ssh-keygen makes next.
NextKey == 2 + Cardinality({s \in Sessions : "keygen" \in Range(events[s])})

IOError == [type |-> "IOError", msg |-> <<"No such file or directory">>]

\* An SSH object not yet constructed; SSH.__init__ leaves _copy_id False and
\* _connect None.
Unborn == [life |-> "unborn", _copy_id |-> FALSE, _connect |-> FALSE,
           calls |-> 0, first |-> "", cleaned |-> <<>>]

\* What a method of session s works on, and what it has done and raised.
World(s) == [sess |-> sessions[s], keyfile |-> keyfile, authorized |-> authorized,
             events |-> <<>>, err |-> NoError]

\* ssh logs in with the key file when the file is there and the host trusts it.
Trusted(w) ==
    /\ w.keyfile # NoKey
    /\ PubKey(w.keyfile) \in Range(w.authorized[AuthKeys])

\* SSH.ssh_copy_id: the exchange appends the key unless the host holds it.
ssh_copy_id(s, w) ==
    IF w.sess._copy_id THEN w
    ELSE IF w.keyfile = NoKey
    THEN [w EXCEPT !.err = ErrorReturnCode(Cmd("ssh-copy-id", <<"-i", "key.pub">>))]
    ELSE [w EXCEPT
            !.authorized = Put(@, AuthKeys,
                               IF PubKey(w.keyfile) \in Range(@[AuthKeys])
                               THEN @[AuthKeys]
                               ELSE Append(@[AuthKeys], PubKey(w.keyfile))),
            !.events = Append(@, "exchange")]

\* connect that sets up the connection without the exchange.
connect_without_copy_id(s, w) ==
    [w EXCEPT !.sess._connect = TRUE, !.events = Append(@, "bake")]

\* SSH.connect
connect(s, w) ==
    LET c == IF ~w.sess._copy_id THEN ssh_copy_id(s, w) ELSE w
    IN  IF c.err # NoError THEN c
        ELSE [c EXCEPT !.sess._connect = TRUE, !.events = Append(@, "bake")]

\* SSH.__getattr__ and the call of the command it returns.
remote_command(s, w) ==
    LET c == IF ~w.sess._connect THEN connect(s, w) ELSE w
    IN  IF c.err # NoError THEN c
        ELSE [c EXCEPT !.events = Append(@, "command"),
                       !.err = IF Trusted(c) THEN NoError
                               ELSE ErrorReturnCode(Cmd("ssh", <<"-i", "key">>))]

\* SSH.clean_key.  grep -v exits with status 1 when it selects no line, and
\* sh raises on it: the cp and the mv are not reached.
clean_key(s, w) ==
    IF ~w.sess._connect THEN w
    ELSE IF w.keyfile = NoKey THEN [w EXCEPT !.err = IOError]
    ELSE IF ~Trusted(w)
    THEN [w EXCEPT !.events = Append(@, "grep"),
                   !.err = ErrorReturnCode(Cmd("grep", <<"-v", PubKey(w.keyfile)>>))]
    ELSE LET before == w.authorized[AuthKeys]
             kept   == SelectSeq(before, LAMBDA e : e # PubKey(w.keyfile))
         IN  IF kept = <<>>
             THEN [w EXCEPT
                     !.authorized = Put(@, AuthKeysTMP, kept),
                     !.events = Append(@, "grep"),
                     !.err = ErrorReturnCode(Cmd("grep", <<"-v", PubKey(w.keyfile)>>))]
             ELSE [w EXCEPT
                     !.authorized = Unlink(Put(Put(@, AuthKeysBAK, before), AuthKeys, kept),
                                          AuthKeysTMP),
                     !.events = @ \o <<"grep", "cp", "mv">>,
                     !.sess._connect = FALSE]

\* Key.clean_key: os.remove of both files when the private one exists.
Key_clean_key(k) == NoKey

(***************************************************************************)
(* The calls made on the SSH objects, in any order.                        *)
(***************************************************************************)
InitSSH ==
    /\ sessions = [s \in Sessions |-> Unborn]
    /\ keyfile \in {NoKey, 1}
    /\ \E t \in InitialTrust :
           /\ PubKey(1) \in Range(t) => keyfile = 1
           /\ authorized = [p \in {AuthKeys} |-> t]
    /\ events = [s \in Sessions |-> <<>>]
    /\ interact = <<>>
    /\ fs = <<>>
    /\ cmds = <<>>
    /\ err = NoError
    /\ lines = <<>>
    /\ ops = <<>>
    /\ NoDeployment

Live(s) == sessions[s].life = "live"

\* The session after a call of `method` that left it as `sess`.
Called(sess, method) ==
    [sess EXCEPT !.calls = @ + 1,
                 !.first = IF @ = "" THEN method ELSE @]

\* The state after a method of session s has run and left w.
Leaves(s, w, method) ==
    /\ sessions' = [sessions EXCEPT ![s] = Called(w.sess, method)]
    /\ keyfile' = w.keyfile
    /\ authorized' = w.authorized
    /\ events' = [events EXCEPT ![s] = @ \o w.events]
    /\ err' = w.err

sshRest == <<fs, cmds, editVars, deployVars, interact>>

\* SSH(host, 'root', 'linux'): Key.__init__ runs ssh-keygen unless the file
\* exists; SSH.__init__ sets the fields.
S_new ==
    \E s \in Sessions :
        /\ sessions[s].life = "unborn"
        /\ sessions' = [sessions EXCEPT ![s] = [Unborn EXCEPT !.life = "live"]]
        /\ IF keyfile = NoKey
           THEN /\ keyfile' = NextKey
                /\ events' = [events EXCEPT ![s] = Append(@, "keygen")]
           ELSE UNCHANGED <<keyfile, events>>
        /\ err' = NoError
        /\ UNCHANGED <<authorized, sshRest>>

\* node.<command>(...): a remote command through SSH.__getattr__.
S_command ==
    \E s \in Sessions :
        /\ Live(s) /\ sessions[s].calls < MaxCalls
        /\ \E w \in {remote_command(s, World(s))} : Leaves(s, w, "command")
        /\ UNCHANGED sshRest

\* node.connect()
S_connect ==
    \E s \in Sessions :
        /\ Live(s) /\ sessions[s].calls < MaxCalls
        /\ \E w \in {connect(s, World(s))} : Leaves(s, w, "connect")
        /\ UNCHANGED sshRest

\* node.ssh_copy_id()
S_copy_id ==
    \E s \in Sessions :
        /\ Live(s) /\ sessions[s].calls < MaxCalls
        /\ \E w \in {ssh_copy_id(s, World(s))} : Leaves(s, w, "ssh_copy_id")
        /\ UNCHANGED sshRest

\* node.clean_key().  A run that got as far as reading the key is recorded
\* with the key and the remote files before and after.
S_clean ==
    \E s \in Sessions :
        /\ Live(s) /\ sessions[s].calls < MaxCalls
        /\ \E w \in {clean_key(s, World(s))} :
              Leaves(s, [w EXCEPT !.sess.cleaned =
                            IF sessions[s]._connect /\ keyfile # NoKey
                            THEN <<[key    |-> PubKey(keyfile),
                                    before |-> authorized,
                                    after  |-> w.authorized]>>
                            ELSE @],
                     "clean_key")
        /\ UNCHANGED sshRest

\* The SSH object is collected: SSH.__del__ runs clean_key, an exception of
\* which Python reports and drops; then its Key is collected and Key.__del__
\* removes the files.
S_del ==
    \E s \in Sessions :
        /\ Live(s)
        /\ \E w \in {clean_key(s, World(s))} :
              /\ sessions' = [sessions EXCEPT ![s] = [w.sess EXCEPT !.life = "disposed"]]
              /\ authorized' = w.authorized
              /\ keyfile' = Key_clean_key(w.keyfile)
              /\ events' = [events EXCEPT ![s] = @ \o w.events \o
                              (IF w.keyfile # NoKey THEN <<"remove">> ELSE <<>>)]
        /\ err' = NoError
        /\ UNCHANGED sshRest

\* The interpreter ends without calling __del__.
S_exit ==
    \E s \in Sessions :
        /\ Live(s)
        /\ sessions' = [sessions EXCEPT ![s].life = "disposed"]
        /\ UNCHANGED <<keyfile, authorized, events, err, sshRest>>

NextSSH ==
    \/ S_new
    \/ S_command
    \/ S_connect
    \/ S_copy_id
    \/ S_clean
    \/ S_del
    \/ S_exit

SpecSSH == InitSSH /\ [][NextSSH]_vars


(***************************************************************************)
(* Claims about SSH and Key, checked under SpecSSH.                        *)
(***************************************************************************)
\* How often session s did `what`.
Times(s, what) == Cardinality({i \in DOMAIN events[s] : events[s][i] = what})

\* C11: in any sequence of operations on one SSH session, the key-install
\* exchange is performed at most once: its first success sets _copy_id, and
\* every later connect or ssh_copy_id call skips the exchange.
C11_ExchangeAtMostOnce ==
    \A s \in Sessions :
        /\ Times(s, "exchange") <= 1
        /\ Times(s, "exchange") >= 1 => sessions[s]._copy_id

\* C12: after clean_key() runs on a session that has connected and whose key
\* the host holds, for every prior content of authorized_keys, the file no
\* longer contains the session's public key, still contains every other entry
\* unchanged, and authorized_keys.BAK holds the original content.
C12_CleanKeyRemovesOnlyKey ==
    \A s \in Sessions :
        \A i \in DOMAIN sessions[s].cleaned :
            LET c == sessions[s].cleaned[i]
            IN  c.key \in Range(c.before[AuthKeys])
                => /\ c.key \notin Range(c.after[AuthKeys])
                   /\ c.after[AuthKeys] =
                          SelectSeq(c.before[AuthKeys], LAMBDA e : e # c.key)
                   /\ AuthKeysBAK \in DOMAIN c.after
                   /\ c.after[AuthKeysBAK] = c.before[AuthKeys]

\* What session s did, without the making of the key file.
Remote(s) == SelectSeq(events[s], LAMBDA e : e # "keygen")

\* C15: constructing an SSH session performs neither the key-install exchange
\* nor connection setup; the first remote command on the session triggers the
\* exchange and then the connection setup, in that order, and no remote command
\* is executed on a session before both have happened.
C15_ConnectOnFirstCommand ==
    \A s \in Sessions :
        /\ (Live(s) /\ sessions[s].calls = 0)
           => Remote(s) = <<>> /\ ~sessions[s]._connect
        /\ (sessions[s].first = "command" /\ Remote(s) # <<>>)
           => /\ Len(Remote(s)) >= 3
              /\ SubSeq(Remote(s), 1, 3) = <<"exchange", "bake", "command">>
        /\ \A i \in DOMAIN events[s] :
               events[s][i] = "command"
               => \E j, k \in 1..(i - 1) :
                      /\ j < k
                      /\ events[s][j] = "exchange"
                      /\ events[s][k] = "bake"

\* A session made its key, and its first call, a remote command, ran after the
\* exchange and the connection setup.
C15_Witness ==
    \E s \in Sessions :
        /\ sessions[s].calls = 1
        /\ sessions[s].first = "command"
        /\ events[s] = <<"keygen", "exchange", "bake", "command">>
        /\ err = NoError

\* C18: a local key file pair is never deleted, and its public key is never
\* removed from the remote trust store, while a live SSH session still uses
\* it: every live session finds the key files on disk, and every connected one
\* finds its key trusted remotely.
C18_LiveSessionKeepsKey ==
    \A s \in Sessions :
        Live(s) => /\ keyfile # NoKey
                   /\ sessions[s]._connect
                      => PubKey(keyfile) \in Range(authorized[AuthKeys])

(***************************************************************************)
(* The output watcher of ssh_copy_id.  sh hands _interact the output of    *)
(* ssh-copy-id one character at a time (_out_bufsize=0).                   *)
(***************************************************************************)
Password == "linux"

Prompt == <<"P", "a", "s", "s", "w", "o", "r", "d", ":", " ">>

\* What ssh-copy-id prints is made of these pieces: the prompt, the prompt
\* short of its blank, a blank, a newline, other text.
Pieces == { Prompt, SubSeq(Prompt, 1, 9), <<" ">>, <<NL>>, <<"o", "k">> }

RECURSIVE Flatten(_)
Flatten(ss) == IF ss = <<>> THEN <<>> ELSE Head(ss) \o Flatten(Tail(ss))

Streams == {Flatten(ss) : ss \in SeqsUpTo(Pieces, MaxPieces)}

\* s.endswith(p)
EndsWith(s, p) == Len(s) >= Len(p) /\ MatchAt(s, Len(s) - Len(p) + 1, p)

\* _interact that never empties its accumulator and answers whenever the
\* prompt is somewhere in it.
interact_no_reset(char, w) ==
    LET agg == Append(w.aggregated, char)
    IN  IF Contains(agg, Prompt)
        THEN [w EXCEPT !.aggregated = agg, !.stdin = Append(@, <<Password, NL>>)]
        ELSE [w EXCEPT !.aggregated = agg]

\* _interact(char, stdin)
interact_char(char, w) ==
    LET agg == Append(w.aggregated, char)
    IN  IF EndsWith(agg, Prompt)
        THEN [w EXCEPT !.aggregated = agg, !.stdin = Append(@, <<Password, NL>>)]
        ELSE IF char = NL
        THEN [w EXCEPT !.aggregated = <<>>]
        ELSE [w EXCEPT !.aggregated = agg]

InitInteract ==
    /\ \E out \in Streams :
           interact = [rest |-> out, seen |-> <<>>, aggregated |-> <<>>, stdin |-> <<>>]
    /\ sessions = <<>>
    /\ keyfile = NoKey
    /\ authorized = <<>>
    /\ events = <<>>
    /\ fs = <<>>
    /\ cmds = <<>>
    /\ err = NoError
    /\ lines = <<>>
    /\ ops = <<>>
    /\ NoDeployment

\* sh calls _interact with the next character of the output.
Interact ==
    /\ interact.rest # <<>>
    /\ \E w \in {interact_char(Head(interact.rest), interact)} :
           interact' = [w EXCEPT !.rest = Tail(@),
                                 !.seen = Append(@, Head(interact.rest))]
    /\ UNCHANGED <<fs, cmds, err, editVars, deployVars, sessions, keyfile,
                   authorized, events>>

NextInteract == Interact

SpecInteract == InitInteract /\ [][NextInteract]_vars

\* The text of s[1..i] since its last newline.
SinceNewline(s, i) ==
    LET nls == {j \in 1..i : s[j] = NL}
    IN  SubSeq(s, (IF nls = {} THEN 0 ELSE CHOOSE j \in nls : \A k \in nls : k <= j) + 1, i)

\* The characters at which the text since the last newline came to end with
\* the prompt.
Prompted(s) == {i \in DOMAIN s : EndsWith(SinceNewline(s, i), Prompt)}

\* C14: for every character stream delivered to the watcher, the stored
\* password is written to stdin exactly once for each time the text accumulated
\* since the last newline comes to end with 'Password: ', and never otherwise;
\* the accumulator is emptied at every newline character.
C14_OnePasswordPerPrompt ==
    interact # <<>>
    => /\ interact.stdin =
              [k \in 1..Cardinality(Prompted(interact.seen)) |-> <<Password, NL>>]
       /\ interact.aggregated = SinceNewline(interact.seen, Len(interact.seen))

\* Two prompts with a newline between them have been answered.
C14_Witness ==
    /\ interact # <<>>
    /\ interact.seen = Prompt \o <<NL>> \o Prompt
    /\ Len(interact.stdin) = 2

(***************************************************************************)
(* Either deployment: a run of Target deployments on a target host, or the *)
(* run of an Initiator on an initiator host.                               *)
(***************************************************************************)
InitDeploy == Init \/ InitInitiator

NextDeploy ==
    \/ initiator = NoInitiator /\ Next
    \/ initiator # NoInitiator /\ NextInitiator

SpecDeploy == InitDeploy /\ [][NextDeploy]_vars

\* deploy() has raised: it stays at the statement that raised.
Raised == pc \in TargetSteps \cup InitiatorSteps /\ err # NoError

\* The steps of Target.deploy() that come after the given one.
After_append_ietd == {"service", "restart", "remove_boot", "append_boot", "verify"}
After_loop        == After_append_ietd \cup {"append_ietd"}

\* What the completed steps of a deploy() that raised have left behind.
EffectsKept ==
    /\ (pc \in After_loop /\ IsLoopDevice(target.device))
       => /\ find_loop(loops, target.device) = <<target.device, target.path>>
          /\ target.path \in DOMAIN fs
    /\ pc \in After_append_ietd
       => /\ CountLine(fs[IetdConf], TargetLine(target.iqn_id)) >= 1
          /\ CountLine(fs[IetdConf], LunLine(target.device)) >= 1
    /\ pc = "verify"
       => CountLine(fs[BootLocal], RestartLine) = 1
    /\ pc \in {"i_service", "i_restart", "i_discover", "i_login"}
       => \A i \in DOMAIN IscsidLines : CountLine(fs[IscsidConf], IscsidLines[i]) >= 1

\* C13: in Target.deploy() and Initiator.deploy(), when a step raises, that
\* deploy issues no later remote command, does not retry the step and rolls
\* back no effect of the steps already completed: what they left is there when
\* it raises, and nothing changes until another call (a new deploy(), a
\* logout()) begins.
C13_RaiseAborts ==
    /\ [](Raised => EffectsKept)
    /\ [][Raised => \/ deploys' = deploys + 1
                    \/ pc' = "logout"
                    \/ /\ cmds' = cmds
                       /\ fs' = fs
                       /\ loops' = loops
                       /\ pc' = pc
                       /\ err' = err]_vars

\* Target.deploy() raised at its last statement after it created a loop device
\* and edited both files.
C13_Witness ==
    /\ pc = "verify" /\ err # NoError
    /\ IsLoopDevice(target.device)
    /\ find_loop(start.loops, target.device) = <<>>
    /\ find_loop(loops, target.device) # <<>>
    /\ fs[IetdConf] # start.fs[IetdConf]
    /\ fs[BootLocal] # start.fs[BootLocal]

====
